---- MODULE Spec2Model ----
(***************************************************************************)
(* occtx: the context storage and state engine.                            *)
(*                                                                         *)
(* The file system is a map from absolute path to file content, a file's   *)
(* content is the sequence of its lines, and every manager operation is a  *)
(* small program over the file-system calls it makes.  Run executes such a *)
(* program to completion (one tool invocation on a quiet file system);     *)
(* the stepwise specifications execute the same program one call at a      *)
(* time, so that a crash or a second invocation can fall between calls.    *)
(***************************************************************************)
EXTENDS Naturals, Sequences, FiniteSets, TLC

VARIABLES useProject, files, dirs, fds, procs, last, prior

vars == <<useProject, files, dirs, fds, procs, last, prior>>

---------------------------------------------------------------------------
(* strings *)

HasPrefix(s, p) == Len(s) >= Len(p) /\ SubSeq(s, 1, Len(p)) = p

HasSuffix(s, p) == Len(s) >= Len(p) /\ SubSeq(s, Len(s) - Len(p) + 1, Len(s)) = p

Contains(s, sub) ==
    \E i \in 1..(Len(s) + 1) :
        i + Len(sub) - 1 <= Len(s) /\ SubSeq(s, i, i + Len(sub) - 1) = sub

TrimSuffix(s, p) == IF HasSuffix(s, p) THEN SubSeq(s, 1, Len(s) - Len(p)) ELSE s

TrimPrefix(s, p) == IF HasPrefix(s, p) THEN SubSeq(s, Len(p) + 1, Len(s)) ELSE s

RECURSIVE TrimLeft(_)
TrimLeft(s) == IF HasPrefix(s, " ") THEN TrimLeft(Tail(s)) ELSE s

RECURSIVE TrimRight(_)
TrimRight(s) == IF HasSuffix(s, " ") THEN TrimRight(SubSeq(s, 1, Len(s) - 1)) ELSE s

TrimSpace(s) == TrimRight(TrimLeft(s))

---------------------------------------------------------------------------
(* paths: filepath.Join cleans the joined path, filepath.Dir drops the last element *)

RECURSIVE Components(_, _)
Components(s, cur) ==
    IF s = "" THEN <<cur>>
    ELSE IF Head(s) = "/" THEN <<cur>> \o Components(Tail(s), "")
    ELSE Components(Tail(s), cur \o Head(s))

RECURSIVE Resolve(_, _)
Resolve(comps, stack) ==
    IF comps = <<>> THEN stack
    ELSE LET c == Head(comps) IN
         IF c = "" \/ c = "." THEN Resolve(Tail(comps), stack)
         ELSE IF c = ".."
              THEN Resolve(Tail(comps),
                           IF stack = <<>> THEN <<>> ELSE SubSeq(stack, 1, Len(stack) - 1))
              ELSE Resolve(Tail(comps), Append(stack, c))

RECURSIVE JoinComps(_)
JoinComps(comps) ==
    IF comps = <<>> THEN "" ELSE "/" \o Head(comps) \o JoinComps(Tail(comps))

Rooted(comps) == IF comps = <<>> THEN "/" ELSE JoinComps(comps)

Clean(p) == Rooted(Resolve(Components(p, ""), <<>>))

Join(a, b) == IF b = "" THEN Clean(a) ELSE Clean(a \o "/" \o b)

Dir(p) ==
    LET c == Resolve(Components(p, ""), <<>>) IN
    IF c = <<>> THEN "/" ELSE Rooted(SubSeq(c, 1, Len(c) - 1))

\* a directory and all its ancestors, as os.MkdirAll makes them
Ancestors(p) ==
    LET c == Resolve(Components(p, ""), <<>>) IN
    {Rooted(SubSeq(c, 1, n)) : n \in 0..Len(c)}

---------------------------------------------------------------------------
(* the locations of part_001 (package config) *)

OpenCodeConfigDir == ".config/opencode"
SettingsSubDir == "settings"
StateFileName == ".occtx-state.json"
ActiveConfigFileName == "opencode.json"
ProjectConfigFileName == "opencode.json"
ProjectConfigDirName == "opencode"

\* what os.UserHomeDir and os.Getwd return
HomeDir == "/h"
CurrentDir == "/w"

\* a faulty NewPaths: the project settings directory is joined to the working directory
ProjectSettingsInCurrentDir == Join(CurrentDir, SettingsSubDir)

GlobalConfigDir == Join(HomeDir, OpenCodeConfigDir)
GlobalSettingsDir == Join(GlobalConfigDir, SettingsSubDir)
GlobalActiveConfig == Join(GlobalConfigDir, ActiveConfigFileName)
GlobalStateFile == Join(GlobalSettingsDir, StateFileName)
ProjectConfigDir == Join(CurrentDir, ProjectConfigDirName)
ProjectSettingsDir == Join(ProjectConfigDir, SettingsSubDir)
ProjectActiveConfig == Join(CurrentDir, ProjectConfigFileName)
ProjectStateFile == Join(ProjectSettingsDir, StateFileName)

GetContextsDir(up) == IF up THEN ProjectSettingsDir ELSE GlobalSettingsDir

\* a faulty lookup: the global active configuration whatever the scope
ActiveConfigAlwaysGlobal(up) == GlobalActiveConfig

GetActiveConfigPath(up) == IF up THEN ProjectActiveConfig ELSE GlobalActiveConfig

GetStateFilePath(up) == IF up THEN ProjectStateFile ELSE GlobalStateFile

---------------------------------------------------------------------------
(* file content: the sequence of a file's lines *)

\* the JSON documents the model knows, each named by its compact text
EmptyDoc == "{}"
ThemeDoc == "{\"theme\":\"dark\"}"
Docs == {EmptyDoc, ThemeDoc}

\* json.MarshalIndent(doc, "", "  ")
MarshalIndent(doc) ==
    IF doc = EmptyDoc THEN <<"{}">>
    ELSE <<"{", "  \"theme\": \"dark\"", "}">>

\* the compact one-line text of a document, as a user may have written it
Compact(doc) == <<doc>>

NotJSON == "<not json>"

\* json.Unmarshal into a map: the document, or NotJSON for any other text
Unmarshal(lines) ==
    IF \E d \in Docs : lines = MarshalIndent(d) \/ lines = Compact(d)
    THEN CHOOSE d \in Docs : lines = MarshalIndent(d) \/ lines = Compact(d)
    ELSE NotJSON

\* the lines GetContext keeps of a .jsonc file: those not starting with //
RECURSIVE StripComments(_)
StripComments(lines) ==
    IF lines = <<>> THEN <<>>
    ELSE IF HasPrefix(TrimSpace(Head(lines)), "//")
         THEN StripComments(Tail(lines))
         ELSE <<Head(lines)>> \o StripComments(Tail(lines))

FormatJSON == "json"
FormatJSONC == "jsonc"

FileExtension(f) == IF f = FormatJSONC THEN ".jsonc" ELSE ".json"

DisplayName(f) ==
    IF f = FormatJSON THEN "JSON" ELSE IF f = FormatJSONC THEN "JSONC" ELSE "Unknown"

GetAllFormats == <<FormatJSON, FormatJSONC>>

\* strings.Split(text, "\n"): the lines of a text
RECURSIVE SplitLines(_, _)
SplitLines(s, cur) ==
    IF s = "" THEN <<cur>>
    ELSE IF Head(s) = "\n" THEN <<cur>> \o SplitLines(Tail(s), "")
    ELSE SplitLines(Tail(s), cur \o Head(s))

\* the comment CreateContextWithFormat puts before a JSONC body, as the lines of the
\* file: three lines, when the name holds no line break
CommentHeader(name, f, now) ==
    SplitLines("// opencode context: " \o name \o "\n// Format: " \o DisplayName(f)
                 \o "\n// Created: " \o now, "")

---------------------------------------------------------------------------
(* State (format.go, second file: the state store) *)

ZeroState == [cur |-> "", prev |-> ""]

\* a faulty SetCurrent: a switch to the current context leaves the state as it is
SetCurrentUnlessSame(s, contextName) ==
    IF s.cur = contextName THEN s ELSE [cur |-> contextName, prev |-> s.cur]

\* State.SetCurrent
SetCurrent(s, contextName) == [cur |-> contextName, prev |-> s.cur]

\* a faulty Unset: current is cleared and previous is left as it was
UnsetKeepsPrevious(s) == [cur |-> "", prev |-> s.prev]

\* a faulty Unset: both slots are cleared
UnsetClearsBoth(s) == [cur |-> "", prev |-> ""]

\* State.Unset
Unset(s) == [cur |-> "", prev |-> s.cur]

\* a faulty swap: made even when previous is empty
SwapAlways(s) == [ok |-> TRUE, s |-> [cur |-> s.prev, prev |-> s.cur]]

\* a faulty swap: reported, not made
SwapForgotten(s) == [ok |-> s.prev # "", s |-> s]

\* State.SwitchToPrevious: the returned bool and the state after the call
SwitchToPreviousState(s) ==
    IF s.prev = "" THEN [ok |-> FALSE, s |-> s]
    ELSE [ok |-> TRUE, s |-> [cur |-> s.prev, prev |-> s.cur]]

CurrentKey == "  \"current\": \""
PreviousKey == "  \"previous\": \""

\* json.MarshalIndent of a State: both fields are omitempty
MarshalState(s) ==
    IF s.cur = "" /\ s.prev = "" THEN <<"{}">>
    ELSE IF s.prev = "" THEN <<"{", CurrentKey \o s.cur \o "\"", "}">>
    ELSE IF s.cur = "" THEN <<"{", PreviousKey \o s.prev \o "\"", "}">>
    ELSE <<"{", CurrentKey \o s.cur \o "\",", PreviousKey \o s.prev \o "\"", "}">>

\* the value of a line `  "key": "value"` (with or without a trailing comma)
FieldValue(line, key) == TrimSuffix(TrimSuffix(TrimPrefix(line, key), ","), "\"")

\* the State the lines spell out when they are a state record; json.Unmarshal
\* accepts exactly the texts that marshal back to themselves here
ReadFields(lines) ==
    IF Len(lines) = 3 /\ HasPrefix(lines[2], CurrentKey)
    THEN [cur |-> FieldValue(lines[2], CurrentKey), prev |-> ""]
    ELSE IF Len(lines) = 3 /\ HasPrefix(lines[2], PreviousKey)
    THEN [cur |-> "", prev |-> FieldValue(lines[2], PreviousKey)]
    ELSE IF Len(lines) = 4 /\ HasPrefix(lines[2], CurrentKey) /\ HasPrefix(lines[3], PreviousKey)
    THEN [cur |-> FieldValue(lines[2], CurrentKey), prev |-> FieldValue(lines[3], PreviousKey)]
    ELSE ZeroState

\* json.Unmarshal(data, &state): ok is false for a text that is no JSON at all.  A JSON
\* document without the two fields (a context's document) unmarshals to the zero State.
UnmarshalState(lines) ==
    IF MarshalState(ReadFields(lines)) = lines THEN [ok |-> TRUE, s |-> ReadFields(lines)]
    ELSE IF Unmarshal(lines) # NotJSON THEN [ok |-> TRUE, s |-> ZeroState]
    ELSE [ok |-> FALSE, s |-> ZeroState]

---------------------------------------------------------------------------
(* the file system: w = [files, dirs, fds]                                  *)
(* files: path -> lines; dirs: the directories; fds: per invocation, the    *)
(* path its open file is linked at (NoFd: none open, Unlinked: the file was *)
(* replaced or removed while open).                                         *)

NoFd == ""
Unlinked == "<unlinked>"

NoFiles == [q \in {} |-> <<>>]

Without(f, path) == [q \in DOMAIN f \ {path} |-> f[q]]

With(f, path, lines) == [q \in DOMAIN f \cup {path} |-> IF q = path THEN lines ELSE f[q]]

\* os.Stat(path) returns no error
Exists(w, path) == path \in DOMAIN w.files \/ path \in w.dirs

\* os.MkdirAll
MkdirAll(w, d) ==
    IF \E a \in Ancestors(d) : a \in DOMAIN w.files
    THEN [ok |-> FALSE, w |-> w]
    ELSE [ok |-> TRUE, w |-> [w EXCEPT !.dirs = @ \cup Ancestors(d)]]

\* Paths.EnsureDirectories: MkdirAll of the config root, then of the settings directory
MkdirNext(first, d) == IF ~first.ok THEN first ELSE MkdirAll(first.w, d)

EnsureDirectories(w, up) ==
    MkdirNext(MkdirAll(w, IF up THEN ProjectConfigDir ELSE GlobalConfigDir),
              IF up THEN ProjectSettingsDir ELSE GlobalSettingsDir)

\* os.WriteFile, first half: open(path, O_WRONLY|O_CREATE|O_TRUNC)
OpenTrunc(w, id, path) ==
    IF Dir(path) \notin w.dirs \/ path \in w.dirs
    THEN [ok |-> FALSE, w |-> w]
    ELSE [ok |-> TRUE,
          w |-> [w EXCEPT !.files = With(@, path, <<>>), !.fds[id] = path]]

\* a write of data at offset 0 over a file holding old
Overlay(old, data) ==
    IF Len(old) > Len(data) THEN data \o SubSeq(old, Len(data) + 1, Len(old)) ELSE data

\* os.WriteFile, second half: write(fd, data) at offset 0, then close(fd)
WriteClose(w, id, data) ==
    LET fd == w.fds[id] IN
    IF fd \in DOMAIN w.files
    THEN [w EXCEPT !.files[fd] = Overlay(@, data), !.fds[id] = NoFd]
    ELSE [w EXCEPT !.fds[id] = NoFd]

\* a faulty rename: the file is copied to new and stays at old
RenameCopies(w, old, new) ==
    IF old \notin DOMAIN w.files \/ Dir(new) \notin w.dirs \/ new \in w.dirs
    THEN [ok |-> FALSE, w |-> w]
    ELSE [ok |-> TRUE, w |-> [w EXCEPT !.files = With(@, new, w.files[old])]]

\* os.Rename of a file: the file at old is linked at new, replacing what was there
Rename(w, old, new) ==
    IF old \notin DOMAIN w.files \/ Dir(new) \notin w.dirs \/ new \in w.dirs
    THEN [ok |-> FALSE, w |-> w]
    ELSE IF old = new THEN [ok |-> TRUE, w |-> w]
    ELSE [ok |-> TRUE,
          w |-> [w EXCEPT
                   !.files = With(Without(@, old), new, w.files[old]),
                   !.fds = [i \in DOMAIN @ |->
                              IF @[i] = old THEN new
                              ELSE IF @[i] = new THEN Unlinked ELSE @[i]]]]

\* os.Remove of a file
Remove(w, path) ==
    IF path \notin DOMAIN w.files
    THEN [ok |-> FALSE, w |-> w]
    ELSE [ok |-> TRUE,
          w |-> [w EXCEPT
                   !.files = Without(@, path),
                   !.fds = [i \in DOMAIN @ |-> IF @[i] = path THEN Unlinked ELSE @[i]]]]

---------------------------------------------------------------------------
(* reads of the manager (part_003) and of the state store *)

\* the error kinds of the specification, section 7; NoError is Go's nil
NoError == ""
InvalidName == "InvalidName"
NotFound == "NotFound"
AlreadyExists == "AlreadyExists"
InvalidContent == "InvalidContent"
SourceInvalid == "SourceInvalid"
CurrentContextProtected == "CurrentContextProtected"
NoPreviousContext == "NoPreviousContext"
StalePrevious == "StalePrevious"
UnsupportedFormat == "UnsupportedFormat"
IOError == "IOError"
NoInput == "NoInput"

\* a faulty validation: the leading-dot rule is missing
ValidateWithoutDotPrefix(name) ==
    IF name = "" THEN InvalidName
    ELSE IF Contains(name, "/") \/ Contains(name, "\\") THEN InvalidName
    ELSE IF name = "." \/ name = ".." THEN InvalidName
    ELSE NoError

validateContextName(name) ==
    IF name = "" THEN InvalidName
    ELSE IF Contains(name, "/") \/ Contains(name, "\\") THEN InvalidName
    ELSE IF name = "." \/ name = ".." THEN InvalidName
    ELSE IF HasPrefix(name, ".") THEN InvalidName
    ELSE NoError

\* a faulty LoadState: a file that does not parse is an error
LoadStateStrict(w, stateFilePath) ==
    IF ~Exists(w, stateFilePath) THEN [err |-> NoError, s |-> ZeroState]
    ELSE IF stateFilePath \notin DOMAIN w.files THEN [err |-> IOError, s |-> ZeroState]
    ELSE IF ~UnmarshalState(w.files[stateFilePath]).ok
    THEN [err |-> InvalidContent, s |-> ZeroState]
    ELSE [err |-> NoError, s |-> UnmarshalState(w.files[stateFilePath]).s]

\* LoadState: [err, s]; the zero State for a missing or unparseable file
LoadState(w, stateFilePath) ==
    IF ~Exists(w, stateFilePath) THEN [err |-> NoError, s |-> ZeroState]
    ELSE IF stateFilePath \notin DOMAIN w.files THEN [err |-> IOError, s |-> ZeroState]
    ELSE IF ~UnmarshalState(w.files[stateFilePath]).ok THEN [err |-> NoError, s |-> ZeroState]
    ELSE [err |-> NoError, s |-> UnmarshalState(w.files[stateFilePath]).s]

\* GetContext's probe: name.json first, name.jsonc second, "" when neither exists
\* a faulty probe: .jsonc is looked for first
ProbeJSONCFirst(w, jsonPath, jsoncPath) ==
    IF Exists(w, jsoncPath) THEN jsoncPath
    ELSE IF Exists(w, jsonPath) THEN jsonPath
    ELSE ""

ProbeContextPath(w, jsonPath, jsoncPath) ==
    IF Exists(w, jsonPath) THEN jsonPath
    ELSE IF Exists(w, jsoncPath) THEN jsoncPath
    ELSE ""

ResolveContextPath(w, up, name) ==
    ProbeContextPath(w, Join(GetContextsDir(up), name \o ".json"),
                        Join(GetContextsDir(up), name \o ".jsonc"))

\* GetContext's parse of the file it read: comment lines are dropped from a .jsonc file
ContextData(path, lines) ==
    IF HasSuffix(path, ".jsonc") THEN Unmarshal(StripComments(lines)) ELSE Unmarshal(lines)

\* GetContext once the file is read
ParsedContext(path, data) ==
    IF data = NotJSON THEN [err |-> InvalidContent, path |-> "", data |-> NotJSON]
    ELSE [err |-> NoError, path |-> path, data |-> data]

\* GetContext once the probe is made
ReadContext(w, path) ==
    IF path = "" THEN [err |-> NotFound, path |-> "", data |-> NotJSON]
    ELSE IF path \notin DOMAIN w.files THEN [err |-> IOError, path |-> "", data |-> NotJSON]
    ELSE ParsedContext(path, ContextData(path, w.files[path]))

\* Manager.GetContext: [err, path (Context.FilePath), data (Context.Data)]
GetContext(w, up, name) ==
    IF validateContextName(name) # NoError
    THEN [err |-> InvalidName, path |-> "", data |-> NotJSON]
    ELSE ReadContext(w, ResolveContextPath(w, up, name))

---------------------------------------------------------------------------
(* One invocation of the tool: a record p                                   *)
(*   id, up (Manager.useProject), op and its arguments name, newName,       *)
(*   format, now (time.Now), pc (the next call to make), err (the error     *)
(*   returned, once pc = "done"), and the locals path (Context.FilePath),   *)
(*   target and data (the file being written), cont (where to go on after   *)
(*   os.WriteFile), st (the State in memory).                               *)
(* Every step maps (p, w) to [p, w].  A call's result is handed to the rest *)
(* of the step as an argument (r: [ok, w] of a file-system call;            *)
(* c: GetContext's result; l: LoadState's result).                          *)

Return(p, w, e) == [p |-> [p EXCEPT !.pc = "done", !.err = e], w |-> w]

Goto(p, w, label) == [p |-> [p EXCEPT !.pc = label], w |-> w]

\* if err != nil { return err }, else on to label
Continue(p, r, label) == IF r.ok THEN Goto(p, r.w, label) ELSE Return(p, r.w, IOError)

\* return err (nil or not) of the last call
Finish(p, r) == Return(p, r.w, IF r.ok THEN NoError ELSE IOError)

TempPath(target) == target \o ".tmp"

\* the locals of a write of data to target + ".tmp", to go on at cont
Writing(p, target, data, cont) ==
    [p EXCEPT !.target = target, !.data = data, !.cont = cont, !.pc = "WriteFile"]

\* os.WriteFile(target + ".tmp", data, 0644), then on to p.cont
WriteFile(p, w) ==
    CASE p.pc = "WriteFile" ->
           Continue(p, OpenTrunc(w, p.id, TempPath(p.target)), "WriteFile_write")
      [] p.pc = "WriteFile_write" ->
           Goto(p, WriteClose(w, p.id, p.data), p.cont)

\* State.SaveState(stateFilePath) of p.st, always called in return position
SaveStateMarshal(p, r) ==
    IF ~r.ok THEN Return(p, r.w, IOError)
    ELSE [p |-> Writing(p, GetStateFilePath(p.up), MarshalState(p.st), "SaveState_rename"),
          w |-> r.w]

SaveState(p, w) ==
    CASE p.pc = "SaveState" ->
           SaveStateMarshal(p, MkdirAll(w, Dir(GetStateFilePath(p.up))))
      [] p.pc = "SaveState_rename" ->
           Finish(p, Rename(w, TempPath(p.target), p.target))

\* the state half of a handler: the State loaded is changed to st and saved
LoadedThenSave(p, w, l, st) ==
    IF l.err # NoError THEN Return(p, w, l.err)
    ELSE Goto([p EXCEPT !.st = st], w, "SaveState")

\* a faulty switch: the state is recorded before the context is known to resolve
SwitchResolvedRecordsFirst(p, w, c) ==
    IF c.err # NoError
    THEN Return(p, [w EXCEPT !.files = With(@, GetStateFilePath(p.up),
                      MarshalState(SetCurrent(LoadState(w, GetStateFilePath(p.up)).s, p.name)))],
                c.err)
    ELSE Goto([p EXCEPT !.path = c.path], w, "Switch_mkdir")

\* SwitchToContext once GetContext has answered
SwitchResolved(p, w, c) ==
    IF c.err # NoError THEN Return(p, w, c.err)
    ELSE Goto([p EXCEPT !.path = c.path], w, "Switch_mkdir")

\* a faulty switch: the parsed document is written back, not the bytes read
SwitchWritesMarshalled(p, w) ==
    IF p.path \notin DOMAIN w.files THEN Return(p, w, IOError)
    ELSE [p |-> Writing(p, GetActiveConfigPath(p.up),
                        MarshalIndent(ContextData(p.path, w.files[p.path])), "Switch_rename"),
          w |-> w]

\* SwitchToContext's os.ReadFile(context.FilePath): the raw bytes are what is written
SwitchRead(p, w) ==
    IF p.path \notin DOMAIN w.files THEN Return(p, w, IOError)
    ELSE [p |-> Writing(p, GetActiveConfigPath(p.up), w.files[p.path], "Switch_rename"),
          w |-> w]

\* SwitchToContext's state update: load, SetCurrent(name), save
SwitchState(p, w, l) == LoadedThenSave(p, w, l, SetCurrent(l.s, p.name))

\* Manager.SwitchToContext(p.name)
SwitchToContext(p, w) ==
    CASE p.pc = "Switch" -> SwitchResolved(p, w, GetContext(w, p.up, p.name))
      [] p.pc = "Switch_mkdir" ->
           Continue(p, MkdirAll(w, Dir(GetActiveConfigPath(p.up))), "Switch_read")
      [] p.pc = "Switch_read" -> SwitchRead(p, w)
      [] p.pc = "Switch_rename" ->
           Continue(p, Rename(w, TempPath(p.target), p.target), "Switch_state")
      [] p.pc = "Switch_state" -> SwitchState(p, w, LoadState(w, GetStateFilePath(p.up)))

\* the text CreateContextWithFormat writes for a document
FormattedData(name, format, now, doc) ==
    IF format = FormatJSONC
    THEN CommentHeader(name, format, now) \o MarshalIndent(doc)
    ELSE MarshalIndent(doc)

\* CreateContextWithFormat's reading of the active configuration
ActiveDocument(w, activeConfigPath) ==
    IF activeConfigPath \in DOMAIN w.files
    THEN Unmarshal(w.files[activeConfigPath]) ELSE NotJSON

\* CreateContextWithFormat from its cross-format existence check on
CreateChecked(p, w, contextsDir, activeConfigPath, doc) ==
    IF \E i \in 1..Len(GetAllFormats) :
          Exists(w, Join(contextsDir, p.name \o FileExtension(GetAllFormats[i])))
    THEN Return(p, w, AlreadyExists)
    ELSE IF ~Exists(w, activeConfigPath) THEN Return(p, w, SourceInvalid)
    ELSE IF activeConfigPath \notin DOMAIN w.files THEN Return(p, w, IOError)
    ELSE IF doc = NotJSON THEN Return(p, w, SourceInvalid)
    ELSE IF p.format \notin {FormatJSON, FormatJSONC} THEN Return(p, w, UnsupportedFormat)
    ELSE [p |-> Writing(p, Join(contextsDir, p.name \o FileExtension(p.format)),
                        FormattedData(p.name, p.format, p.now, doc), "Create_rename"),
          w |-> w]

\* Manager.CreateContextWithFormat(p.name, p.format)
CreateContextWithFormat(p, w) ==
    CASE p.pc = "Create" ->
           IF validateContextName(p.name) # NoError THEN Return(p, w, InvalidName)
           ELSE Goto(p, w, "Create_ensure")
      [] p.pc = "Create_ensure" -> Continue(p, EnsureDirectories(w, p.up), "Create_check")
      [] p.pc = "Create_check" ->
           CreateChecked(p, w, GetContextsDir(p.up), GetActiveConfigPath(p.up),
                         ActiveDocument(w, GetActiveConfigPath(p.up)))
      [] p.pc = "Create_rename" -> Finish(p, Rename(w, TempPath(p.target), p.target))

\* a faulty guard: the previous context is protected too
DeleteGuardsPrevious(st, name) == st.cur = name \/ st.prev = name

\* a faulty guard: the name is compared with the previous context, not the current one
DeleteGuardsPreviousOnly(st, name) == st.prev = name

\* DeleteContext's guard: the context is the current one
IsCurrent(st, name) == st.cur = name

DeleteChecked(p, w, c, l) ==
    IF validateContextName(p.name) # NoError THEN Return(p, w, InvalidName)
    ELSE IF c.err # NoError THEN Return(p, w, c.err)
    ELSE IF l.err # NoError THEN Return(p, w, l.err)
    ELSE IF IsCurrent(l.s, p.name) THEN Return(p, w, CurrentContextProtected)
    ELSE Goto([p EXCEPT !.path = c.path], w, "Delete_remove")

\* Manager.DeleteContext(p.name)
DeleteContext(p, w) ==
    CASE p.pc = "Delete" ->
           DeleteChecked(p, w, GetContext(w, p.up, p.name),
                         LoadState(w, GetStateFilePath(p.up)))
      [] p.pc = "Delete_remove" -> Finish(p, Remove(w, p.path))

\* a faulty update: only the current slot is looked at
RenameInStateCurrentOnly(st, oldName, newName) ==
    [updated |-> st.cur = oldName,
     s |-> [cur |-> IF st.cur = oldName THEN newName ELSE st.cur, prev |-> st.prev]]

\* the State RenameContext saves, and whether it saves at all
RenameInState(st, oldName, newName) ==
    [updated |-> st.cur = oldName \/ st.prev = oldName,
     s |-> [cur |-> IF st.cur = oldName THEN newName ELSE st.cur,
            prev |-> IF st.prev = oldName THEN newName ELSE st.prev]]

\* a faulty collision check: a file under either extension blocks the rename
RenameChecksBothExtensions(p, w, c, newContextPath) ==
    IF validateContextName(p.name) # NoError THEN Return(p, w, InvalidName)
    ELSE IF validateContextName(p.newName) # NoError THEN Return(p, w, InvalidName)
    ELSE IF c.err # NoError THEN Return(p, w, c.err)
    ELSE IF Exists(w, newContextPath) \/ Exists(w, newContextPath \o "c")
    THEN Return(p, w, AlreadyExists)
    ELSE Goto([p EXCEPT !.path = c.path, !.target = newContextPath], w, "Rename_rename")

RenameChecked(p, w, c, newContextPath) ==
    IF validateContextName(p.name) # NoError THEN Return(p, w, InvalidName)
    ELSE IF validateContextName(p.newName) # NoError THEN Return(p, w, InvalidName)
    ELSE IF c.err # NoError THEN Return(p, w, c.err)
    ELSE IF Exists(w, newContextPath) THEN Return(p, w, AlreadyExists)
    ELSE Goto([p EXCEPT !.path = c.path, !.target = newContextPath], w, "Rename_rename")

RenameState(p, w, l, u) ==
    IF l.err # NoError THEN Return(p, w, l.err)
    ELSE IF u.updated THEN Goto([p EXCEPT !.st = u.s], w, "SaveState")
    ELSE Return(p, w, NoError)

RenameLoaded(p, w, l) == RenameState(p, w, l, RenameInState(l.s, p.name, p.newName))

\* Manager.RenameContext(p.name, p.newName)
RenameContext(p, w) ==
    CASE p.pc = "Rename" ->
           RenameChecked(p, w, GetContext(w, p.up, p.name),
                         Join(GetContextsDir(p.up), p.newName \o ".json"))
      [] p.pc = "Rename_rename" -> Continue(p, Rename(w, p.path, p.target), "Rename_state")
      [] p.pc = "Rename_state" -> RenameLoaded(p, w, LoadState(w, GetStateFilePath(p.up)))

\* a faulty SwitchToPrevious: the swapped State is saved before the name is checked
PreviousSwappedSavesFirst(p, w, sw) ==
    IF ~sw.ok THEN Return(p, w, NoPreviousContext)
    ELSE IF GetContext(w, p.up, sw.s.cur).err # NoError
    THEN Return([p EXCEPT !.st = sw.s, !.name = sw.s.cur],
                [w EXCEPT !.files = With(@, GetStateFilePath(p.up), MarshalState(sw.s))],
                StalePrevious)
    ELSE Goto([p EXCEPT !.st = sw.s, !.name = sw.s.cur], w, "Switch")

\* SwitchToPrevious once the swap is made on the State in memory (sw): the swapped-in
\* name must resolve, and SwitchToContext is entered with it
PreviousSwapped(p, w, sw) ==
    IF ~sw.ok THEN Return(p, w, NoPreviousContext)
    ELSE IF GetContext(w, p.up, sw.s.cur).err # NoError
    THEN Return([p EXCEPT !.st = sw.s, !.name = sw.s.cur], w, StalePrevious)
    ELSE Goto([p EXCEPT !.st = sw.s, !.name = sw.s.cur], w, "Switch")

PreviousLoaded(p, w, l) ==
    IF l.err # NoError THEN Return(p, w, l.err)
    ELSE PreviousSwapped(p, w, SwitchToPreviousState(l.s))

\* Manager.SwitchToPrevious(): nothing is saved before SwitchToContext, which loads
\* the state file again
SwitchToPrevious(p, w) ==
    CASE p.pc = "Previous" -> PreviousLoaded(p, w, LoadState(w, GetStateFilePath(p.up)))

UnsetState(p, w, l) == LoadedThenSave(p, w, l, Unset(l.s))

\* Manager.UnsetCurrentContext()
UnsetCurrentContext(p, w) ==
    CASE p.pc = "Unset" ->
           IF Exists(w, GetActiveConfigPath(p.up))
           THEN Goto(p, w, "Unset_remove") ELSE Goto(p, w, "Unset_state")
      [] p.pc = "Unset_remove" ->
           Continue(p, Remove(w, GetActiveConfigPath(p.up)), "Unset_state")
      [] p.pc = "Unset_state" -> UnsetState(p, w, LoadState(w, GetStateFilePath(p.up)))

\* filepath.Ext: the suffix of a name from its last dot on
RECURSIVE Ext(_)
Ext(s) ==
    IF s = "" THEN ""
    ELSE IF Contains(Tail(s), ".") THEN Ext(Tail(s))
    ELSE IF Head(s) = "." THEN s
    ELSE ""

\* the last element of a path: os.DirEntry.Name of the entry at p
Base(p) ==
    LET c == Resolve(Components(p, ""), <<>>) IN
    IF c = <<>> THEN "/" ELSE c[Len(c)]

\* os.ReadDir(d): the files and directories directly in d
ReadDir(w, d) == {q \in (DOMAIN w.files \cup w.dirs) \ {"/"} : Dir(q) = d}

\* a faulty filter: the state file is not skipped
ListedWithStateFile(w, e) ==
    /\ e \notin w.dirs
    /\ HasSuffix(Base(e), ".json") \/ HasSuffix(Base(e), ".jsonc")

\* ListContexts' filter of one entry: no directory, not the state file, .json or .jsonc
Listed(w, e) ==
    /\ e \notin w.dirs
    /\ Base(e) # StateFileName
    /\ HasSuffix(Base(e), ".json") \/ HasSuffix(Base(e), ".jsonc")

\* the name ListContexts gives an entry it keeps
ListedName(entryName) ==
    IF HasSuffix(entryName, ".json") THEN TrimSuffix(entryName, ".json")
    ELSE TrimSuffix(entryName, ".jsonc")

\* Manager.ListContexts(): [err, contexts], each context a [name, path]
ListContexts(w, up) ==
    IF ~Exists(w, GetContextsDir(up)) THEN [err |-> NoError, contexts |-> {}]
    ELSE IF GetContextsDir(up) \notin w.dirs THEN [err |-> IOError, contexts |-> {}]
    ELSE [err |-> NoError,
          contexts |-> {[name |-> ListedName(Base(e)), path |-> e] :
                          e \in {q \in ReadDir(w, GetContextsDir(up)) : Listed(w, q)}}]

\* Manager.ListContexts() as an invocation
ListOnly(p, w) ==
    CASE p.pc = "List" -> Return(p, w, ListContexts(w, p.up).err)

\* ProjectContextsExist's test of one entry
CountsAsContext(w, e) ==
    e \notin w.dirs /\ Ext(Base(e)) = ".json" /\ Base(e) # StateFileName

\* Paths.ProjectContextsExist()
ProjectContextsExist(w) ==
    IF ~Exists(w, ProjectSettingsDir) THEN FALSE
    ELSE IF ProjectSettingsDir \notin w.dirs THEN FALSE
    ELSE \E e \in ReadDir(w, ProjectSettingsDir) : CountsAsContext(w, e)

\* Paths.ProjectContextsExist() as an invocation: true is recorded as NoError, false
\* as NotFound
ExistsOnly(p, w) ==
    CASE p.pc = "Exists" ->
           Return(p, w, IF ProjectContextsExist(w) THEN NoError ELSE NotFound)

\* GetCurrentContext once the state is loaded: the name returned is kept in p.name
CurrentLoaded(p, w, l) ==
    IF l.err # NoError THEN Return(p, w, l.err)
    ELSE Return([p EXCEPT !.name = l.s.cur], w, NoError)

\* Manager.GetCurrentContext()
GetCurrentContext(p, w) ==
    CASE p.pc = "Current" -> CurrentLoaded(p, w, LoadState(w, GetStateFilePath(p.up)))

\* Manager.GetContext(p.name) as an invocation of its own (show, export, edit)
GetContextOnly(p, w) ==
    CASE p.pc = "Get" -> Return(p, w, GetContext(w, p.up, p.name).err)

\* importContext from its existence check on: only name.json is looked for
ImportChecked(p, w, contextPath, formattedData) ==
    IF Exists(w, contextPath) THEN Return(p, w, AlreadyExists)
    ELSE [p |-> Writing(p, contextPath, formattedData, "Import_rename"), w |-> w]

\* importContext(p.name) of cmd/root.go, p.data holding the lines read from stdin: the
\* name is used as given
ImportContext(p, w) ==
    CASE p.pc = "Import" ->
           IF p.data = <<>> THEN Return(p, w, NoInput)
           ELSE IF Unmarshal(p.data) = NotJSON THEN Return(p, w, InvalidContent)
           ELSE Goto(p, w, "Import_ensure")
      [] p.pc = "Import_ensure" -> Continue(p, EnsureDirectories(w, p.up), "Import_check")
      [] p.pc = "Import_check" ->
           ImportChecked(p, w, Join(GetContextsDir(p.up), p.name \o ".json"),
                         MarshalIndent(Unmarshal(p.data)))
      [] p.pc = "Import_rename" -> Finish(p, Rename(w, TempPath(p.target), p.target))

\* the next call of invocation p
Step(p, w) ==
    CASE p.pc = "Get" -> GetContextOnly(p, w)
      [] p.pc = "Current" -> GetCurrentContext(p, w)
      [] p.pc = "List" -> ListOnly(p, w)
      [] p.pc = "Exists" -> ExistsOnly(p, w)
      [] p.pc \in {"Import", "Import_ensure", "Import_check", "Import_rename"} ->
           ImportContext(p, w)
      [] p.pc \in {"WriteFile", "WriteFile_write"} -> WriteFile(p, w)
      [] p.pc \in {"SaveState", "SaveState_rename"} -> SaveState(p, w)
      [] p.pc \in {"Switch", "Switch_mkdir", "Switch_read", "Switch_rename", "Switch_state"} ->
           SwitchToContext(p, w)
      [] p.pc \in {"Create", "Create_ensure", "Create_check", "Create_rename"} ->
           CreateContextWithFormat(p, w)
      [] p.pc \in {"Delete", "Delete_remove"} -> DeleteContext(p, w)
      [] p.pc \in {"Rename", "Rename_rename", "Rename_state"} -> RenameContext(p, w)
      [] p.pc = "Previous" -> SwitchToPrevious(p, w)
      [] p.pc \in {"Unset", "Unset_remove", "Unset_state"} -> UnsetCurrentContext(p, w)

\* the invocation r.p on the files r.w, run to its end
RECURSIVE RunFrom(_)
RunFrom(r) == IF r.p.pc = "done" THEN r ELSE RunFrom(Step(r.p, r.w))

Run(p, w) == RunFrom([p |-> p, w |-> w])

---------------------------------------------------------------------------
(* the state machine *)

NumProcs == 2
ProcIds == 1..NumProcs

\* the inputs
ValidNames == {"a", "b"}
InvalidNames == {"", ".", "..", "a/b", "a\\b", ".a"}
Names == ValidNames \cup {".a"}
Formats == {FormatJSON, FormatJSONC}
Times == {"2006-01-02 15:04:05"}
GarbageText == <<"not json">>
DocInputs == {Compact(ThemeDoc), Compact(EmptyDoc)}
ActiveInputs == DocInputs \cup {GarbageText}

NoSnapshot == [files |-> NoFiles, dirs |-> {}]

Idle ==
    [id |-> 0, up |-> FALSE, op |-> "", name |-> "", newName |-> "", format |-> "",
     now |-> "", pc |-> "idle", err |-> NoError, path |-> "", target |-> "",
     data |-> <<>>, cont |-> "", st |-> ZeroState, pre |-> NoSnapshot]

World == [files |-> files, dirs |-> dirs, fds |-> fds]

\* the State the state file holds
Persisted(f, up) ==
    LoadState([files |-> f, dirs |-> {}, fds |-> <<>>], GetStateFilePath(up)).s

\* invocation id of operation op, about to make its first call
Start(id, op, name, newName, format, now) ==
    [Idle EXCEPT !.id = id, !.up = useProject, !.op = op, !.name = name,
                 !.newName = newName, !.format = format, !.now = now,
                 !.pc = op, !.pre = [files |-> files, dirs |-> dirs]]

\* what is remembered of the last invocation that ended: its operation and arguments
\* (name: for Previous, the name it switched to), the error it returned, the pc it had
\* reached when it was killed ("" when it returned), the last file it set out to write,
\* and the files and directories before it started
Outcome(p, crashedAt) ==
    [op |-> p.op, name |-> p.name, newName |-> p.newName, format |-> p.format,
     err |-> p.err, crashedAt |-> crashedAt, target |-> p.target, pre |-> p.pre]

NoOutcome == Outcome(Idle, "")

Init ==
    /\ useProject \in BOOLEAN
    /\ files = NoFiles
    /\ dirs = Ancestors(HomeDir) \cup Ancestors(CurrentDir)
    /\ fds = [i \in ProcIds |-> NoFd]
    /\ procs = [i \in ProcIds |-> Idle]
    /\ last = NoOutcome
    /\ prior = NoOutcome

\* no invocation is running and the last outcome has been read
Quiet == last = NoOutcome /\ \A i \in ProcIds : procs[i].pc = "idle"

\* invocation r.p has returned, leaving the files r.w
Returned(r) ==
    /\ files' = r.w.files
    /\ dirs' = r.w.dirs
    /\ fds' = r.w.fds
    /\ last' = Outcome(r.p, "")
    /\ UNCHANGED <<useProject, procs, prior>>

\* one invocation on a quiet file system, from its first call to its return
Invoke(p) ==
    /\ Quiet
    /\ Returned(Run(p, World))

DoSwitch(name) == Invoke(Start(1, "Switch", name, "", "", ""))

DoCreate(name, format, now) == Invoke(Start(1, "Create", name, "", format, now))

DoDelete(name) == Invoke(Start(1, "Delete", name, "", "", ""))

DoRename(oldName, newName) == Invoke(Start(1, "Rename", oldName, newName, "", ""))

DoGet(name) == Invoke(Start(1, "Get", name, "", "", ""))

DoPrevious == Invoke(Start(1, "Previous", "", "", "", ""))

DoUnset == Invoke(Start(1, "Unset", "", "", "", ""))

DoList == Invoke(Start(1, "List", "", "", "", ""))

DoProjectContextsExist == Invoke(Start(1, "Exists", "", "", "", ""))

DoCurrent == Invoke(Start(1, "Current", "", "", "", ""))

\* occtx --import name, with input on stdin
DoImport(name, input) ==
    Invoke([Start(1, "Import", name, "", "", "") EXCEPT !.data = input])

\* the user, or opencode itself, writes the active configuration file
EditActiveConfig(lines) ==
    /\ Quiet
    /\ files' = With(files, GetActiveConfigPath(useProject), lines)
    /\ dirs' = dirs \cup Ancestors(Dir(GetActiveConfigPath(useProject)))
    /\ last' = [NoOutcome EXCEPT !.op = "Edit", !.pre = [files |-> files, dirs |-> dirs]]
    /\ UNCHANGED <<useProject, fds, procs, prior>>

\* the outcome has been read: the next invocation can start.  With keep, the outcome
\* stays on record as the one before the next.
Forget(keep) ==
    /\ last # NoOutcome
    /\ last' = NoOutcome
    /\ prior' = IF keep THEN last ELSE NoOutcome
    /\ UNCHANGED <<useProject, files, dirs, fds, procs>>

Next ==
    \/ \E n \in Names : DoSwitch(n)
    \/ \E n \in Names, f \in Formats, t \in Times : DoCreate(n, f, t)
    \/ \E n \in Names : DoDelete(n)
    \/ \E o \in Names, n \in Names : DoRename(o, n)
    \/ DoPrevious
    \/ DoUnset
    \/ \E lines \in ActiveInputs : EditActiveConfig(lines)
    \/ Forget(FALSE)

Spec == Init /\ [][Next]_vars

\* the same machine with the outcome before the last kept on record (prior), over
\* JSON contexts only
NextHistory ==
    \/ \E n \in ValidNames : DoSwitch(n)
    \/ \E n \in ValidNames, t \in Times : DoCreate(n, FormatJSON, t)
    \/ \E n \in ValidNames : DoDelete(n)
    \/ DoPrevious
    \/ DoUnset
    \/ \E lines \in DocInputs : EditActiveConfig(lines)
    \/ Forget(TRUE)

SpecHistory == Init /\ [][NextHistory]_vars

\* the same machine over every kind of rejected name and one good name
NamesUnderValidation == {"a"} \cup InvalidNames

NextNames ==
    \/ \E n \in NamesUnderValidation : DoGet(n)
    \/ \E n \in NamesUnderValidation, f \in Formats, t \in Times : DoCreate(n, f, t)
    \/ \E n \in NamesUnderValidation : DoDelete(n)
    \/ \E o \in NamesUnderValidation, n \in NamesUnderValidation : DoRename(o, n)
    \/ DoSwitch("a")
    \/ EditActiveConfig(Compact(ThemeDoc))
    \/ Forget(FALSE)

SpecNames == Init /\ [][NextNames]_vars

\* the same machine with the import flow, over a good name, a dotted name and a name
\* that leaves the contexts directory
ImportNames == {"a", ".a", "../a"}
StdinInputs == {Compact(ThemeDoc), GarbageText, <<>>}

NextImport ==
    \/ \E n \in ImportNames, input \in StdinInputs : DoImport(n, input)
    \/ \E n \in {"a", ".a"}, f \in Formats, t \in Times : DoCreate(n, f, t)
    \/ \E o \in ValidNames, n \in ValidNames : DoRename(o, n)
    \/ \E n \in ValidNames : DoDelete(n)
    \/ DoSwitch("a")
    \/ EditActiveConfig(Compact(ThemeDoc))
    \/ Forget(FALSE)

SpecImport == Init /\ [][NextImport]_vars

\* the same machine over creating and reading back, with a name that passes validation
\* and holds a line break
NewlineName == "a\nb"
RoundTripNames == {"a", NewlineName}

NextRoundTrip ==
    \/ \E n \in RoundTripNames, f \in Formats, t \in Times : DoCreate(n, f, t)
    \/ \E n \in RoundTripNames : DoGet(n)
    \/ \E n \in RoundTripNames : DoDelete(n)
    \/ \E lines \in ActiveInputs : EditActiveConfig(lines)
    \/ Forget(FALSE)

SpecRoundTrip == Init /\ [][NextRoundTrip]_vars

\* the state file is written from outside, or was left damaged
EditStateFile(lines) ==
    /\ Quiet
    /\ files' = With(files, GetStateFilePath(useProject), lines)
    /\ dirs' = dirs \cup Ancestors(Dir(GetStateFilePath(useProject)))
    /\ last' = [NoOutcome EXCEPT !.op = "EditState", !.pre = [files |-> files, dirs |-> dirs]]
    /\ UNCHANGED <<useProject, fds, procs, prior>>

\* a state file torn as two writers of one temporary file leave it
TornState == Overlay(MarshalState([cur |-> "a", prev |-> ""]), MarshalState(ZeroState))

\* what a state file may hold: a saved State, a JSON object of another kind, text that
\* is no JSON, nothing, a text cut short, and a short text written over a longer one
StateInputs ==
    { MarshalState([cur |-> "a", prev |-> "b"]),
      MarshalIndent(ThemeDoc),
      GarbageText,
      <<>>,
      <<"{", CurrentKey \o "a\",">>,
      TornState }

\* the same machine over state files of every kind
NextLoad ==
    \/ \E lines \in StateInputs : EditStateFile(lines)
    \/ DoCurrent
    \/ \E n \in ValidNames : DoSwitch(n)
    \/ \E n \in ValidNames, t \in Times : DoCreate(n, FormatJSON, t)
    \/ DoPrevious
    \/ DoUnset
    \/ EditActiveConfig(Compact(ThemeDoc))
    \/ Forget(FALSE)

SpecLoad == Init /\ [][NextLoad]_vars

---------------------------------------------------------------------------
(* the same invocations one call at a time: they can be killed, and they can interleave *)

\* invocation p starts as process i
Launch(i, p) ==
    /\ last = NoOutcome
    /\ procs[i].pc = "idle"
    /\ procs' = [procs EXCEPT ![i] = p]
    /\ UNCHANGED <<useProject, files, dirs, fds, last, prior>>

Begin(i, op, name, newName, format, now) ==
    Launch(i, Start(i, op, name, newName, format, now))

\* the same with no record of the files before: between interleaved invocations there
\* is no one state before
BeginUnrecorded(i, op, name, newName, format, now) ==
    Launch(i, [Start(i, op, name, newName, format, now) EXCEPT !.pre = NoSnapshot])

\* invocation i has made a call, leaving r
Stepped(i, r) ==
    /\ files' = r.w.files
    /\ dirs' = r.w.dirs
    /\ fds' = r.w.fds
    /\ procs' = [procs EXCEPT ![i] = r.p]
    /\ UNCHANGED <<useProject, last, prior>>

\* invocation i makes its next call
StepProc(i) ==
    /\ procs[i].pc \notin {"idle", "done"}
    /\ Stepped(i, Step(procs[i], World))

\* invocation i returns
End(i) ==
    /\ last = NoOutcome
    /\ procs[i].pc = "done"
    /\ last' = Outcome(procs[i], "")
    /\ procs' = [procs EXCEPT ![i] = Idle]
    /\ UNCHANGED <<useProject, files, dirs, fds, prior>>

\* invocation i is killed before its next call: its descriptors are closed, nothing
\* else is undone
Crash(i) ==
    /\ last = NoOutcome
    /\ procs[i].pc \notin {"idle", "done"}
    /\ last' = Outcome(procs[i], procs[i].pc)
    /\ procs' = [procs EXCEPT ![i] = Idle]
    /\ fds' = [fds EXCEPT ![i] = NoFd]
    /\ UNCHANGED <<useProject, files, dirs, prior>>

\* one invocation at a time, which may be killed at any call
NextCrash ==
    \/ \E n \in ValidNames : Begin(1, "Switch", n, "", "", "")
    \/ \E n \in ValidNames, t \in Times : Begin(1, "Create", n, "", FormatJSON, t)
    \/ Begin(1, "Rename", "a", "b", "", "")
    \/ Begin(1, "Previous", "", "", "", "")
    \/ Begin(1, "Unset", "", "", "", "")
    \/ StepProc(1)
    \/ End(1)
    \/ Crash(1)
    \/ EditActiveConfig(Compact(ThemeDoc))
    \/ Forget(FALSE)

SpecCrash == Init /\ [][NextCrash]_vars

\* invocations of every process, interleaved call by call, none killed; contexts are
\* created by the first process only
NextConc ==
    \/ \E i \in ProcIds, n \in ValidNames : BeginUnrecorded(i, "Switch", n, "", "", "")
    \/ \E n \in ValidNames, t \in Times : BeginUnrecorded(1, "Create", n, "", FormatJSON, t)
    \/ \E i \in ProcIds : BeginUnrecorded(i, "Unset", "", "", "", "")
    \/ \E i \in ProcIds : StepProc(i)
    \/ \E i \in ProcIds : End(i)
    \/ EditActiveConfig(Compact(ThemeDoc))
    \/ Forget(FALSE)

SpecConc == Init /\ [][NextConc]_vars

---------------------------------------------------------------------------
(* what the claims speak of *)

\* the file at path, if any: <<lines>> or <<>>
FileAt(f, path) == IF path \in DOMAIN f THEN <<f[path]>> ELSE <<>>

ActiveConfigPath == GetActiveConfigPath(useProject)
StateFilePath == GetStateFilePath(useProject)

\* the file system as the last invocation found it
PreWorld == [files |-> last.pre.files, dirs |-> last.pre.dirs, fds |-> fds]

StateBefore == Persisted(last.pre.files, useProject)
StateNow == Persisted(files, useProject)

\* the last invocation was op and it returned (it was not killed)
Ended(op) == last.op = op /\ last.crashedAt = ""

NothingChanged == files = last.pre.files /\ dirs = last.pre.dirs

\* the names the specification says are rejected
RejectedName(name) ==
    \/ name \in {"", ".", ".."}
    \/ Contains(name, "/")
    \/ Contains(name, "\\")
    \/ HasPrefix(name, ".")

\* the files other than the temporary siblings
Visible(f) == [q \in {x \in DOMAIN f : ~HasSuffix(x, ".tmp")} |-> f[q]]

\* the last invocation, started again
Restart(o) ==
    [Idle EXCEPT !.id = 1, !.up = useProject, !.op = o.op, !.name = o.name,
                 !.newName = o.newName, !.format = o.format, !.pc = o.op, !.pre = o.pre]

\* the files the last invocation leaves when it runs from its first call to its return
\* on the files it found
PostFiles == Run(Restart(last), PreWorld).w.files

\* the last invocation was killed
Killed == last.crashedAt # ""

\* the last invocation was killed between its write of the temporary file and the
\* rename: the file is open or written, the rename is the next call
KilledBeforeRename ==
    last.crashedAt \in {"WriteFile_write", "Switch_rename", "Create_rename", "SaveState_rename"}

\* a file as some writer meant it: a state file that reads back, a configuration or
\* context that parses, or what was put in the active configuration from outside
Complete(path, lines) ==
    IF path = StateFilePath THEN UnmarshalState(lines).ok
    ELSE \/ ContextData(path, lines) # NotJSON
         \/ (path = ActiveConfigPath /\ lines \in ActiveInputs)

AllIdle == \A i \in ProcIds : procs[i].pc = "idle"

---------------------------------------------------------------------------
(* the claims *)

\* C1: a successful Switch(name) leaves the active config file with exactly the bytes
\* of the context file resolved for name, and the persisted state with current = name
\* and previous = the current of before the call.
C1_SwitchCopiesAndRecords ==
    (Ended("Switch") /\ last.err = NoError) =>
        /\ ResolveContextPath(PreWorld, useProject, last.name) \in DOMAIN last.pre.files
        /\ FileAt(files, ActiveConfigPath)
             = FileAt(last.pre.files, ResolveContextPath(PreWorld, useProject, last.name))
        /\ FileAt(files, ResolveContextPath(World, useProject, last.name))
             = FileAt(files, ActiveConfigPath)
        /\ StateNow = [cur |-> last.name, prev |-> StateBefore.cur]

\* C1's case: a switch from current "a" to a JSONC context "b"
C1_Witness ==
    /\ Ended("Switch") /\ last.err = NoError /\ last.name = "b"
    /\ StateBefore.cur = "a"
    /\ HasSuffix(ResolveContextPath(World, useProject, "b"), ".jsonc")

\* C2: from current = A, previous = B with A and B both valid contexts, two
\* SwitchToPrevious in a row both succeed and restore current = A, previous = B, the
\* active config holding A's bytes.
C2_PreviousTwiceRestores ==
    (/\ prior.op = "Previous" /\ prior.crashedAt = ""
     /\ Ended("Previous")
     /\ GetContext([files |-> prior.pre.files, dirs |-> prior.pre.dirs, fds |-> fds],
                   useProject, Persisted(prior.pre.files, useProject).cur).err = NoError
     /\ GetContext([files |-> prior.pre.files, dirs |-> prior.pre.dirs, fds |-> fds],
                   useProject, Persisted(prior.pre.files, useProject).prev).err = NoError)
    => /\ prior.err = NoError
       /\ last.err = NoError
       /\ StateNow = Persisted(prior.pre.files, useProject)
       /\ StateBefore = [cur |-> StateNow.prev, prev |-> StateNow.cur]
       /\ FileAt(files, ActiveConfigPath)
            = FileAt(files, ResolveContextPath(World, useProject, StateNow.cur))

\* C2's case: back on "a" with previous "b" after two SwitchToPrevious
C2_Witness ==
    /\ prior.op = "Previous" /\ prior.err = NoError
    /\ Ended("Previous") /\ last.err = NoError
    /\ StateNow = [cur |-> "a", prev |-> "b"]
    /\ StateBefore = [cur |-> "b", prev |-> "a"]

\* C3 as stated: Delete(name) fails with CurrentContextProtected when and only when
\* name is the persisted current, and succeeds in every other case.
C3_AsStated ==
    Ended("Delete") =>
        /\ (last.err = CurrentContextProtected) <=> (last.name = StateBefore.cur)
        /\ (last.name # StateBefore.cur) => (last.err = NoError)

\* C3 as amended: when get(name) fails, Delete fails with get's error and changes
\* nothing; when name resolves, Delete fails with CurrentContextProtected exactly when
\* name is the persisted current (changing nothing) and otherwise succeeds, removing
\* the resolved file and nothing else - also when name is the persisted previous.
C3_DeleteGuard ==
    Ended("Delete") =>
        IF GetContext(PreWorld, useProject, last.name).err # NoError
        THEN last.err = GetContext(PreWorld, useProject, last.name).err /\ NothingChanged
        ELSE IF last.name = StateBefore.cur
        THEN last.err = CurrentContextProtected /\ NothingChanged
        ELSE /\ last.err = NoError
             /\ files = Without(last.pre.files,
                                ResolveContextPath(PreWorld, useProject, last.name))
             /\ files # last.pre.files

\* C3's case: the previous context has been deleted
C3_Witness ==
    /\ Ended("Delete") /\ last.err = NoError
    /\ last.name = StateBefore.prev
    /\ StateBefore.cur # "" /\ StateBefore.cur # last.name

\* C4 as stated: Switch, SwitchToPrevious, Rename or Unset, killed at any call or
\* failing, leaves the state file, the active config and the context files either all
\* as before the operation or all as after it.
C4_AsStated ==
    (last.op \in {"Switch", "Previous", "Rename", "Unset"} /\ (Killed \/ last.err # NoError))
    => \/ Visible(files) = Visible(last.pre.files)
       \/ (Killed /\ Visible(files) = Visible(PostFiles))

\* C5 as stated: once the interleaved invocations have all returned, no state file,
\* active config or context file is torn.
C5_AsStated ==
    AllIdle => \A q \in DOMAIN Visible(files) : Complete(q, files[q])

\* C6: after a successful switch, create or state save no <target>.tmp of a file the
\* operation wrote remains; and an operation killed between the write of a temporary
\* file and its rename leaves the target as it was before the operation, or absent.
C6_TempFileProtocol ==
    /\ (last.op \in {"Switch", "Previous"} /\ last.crashedAt = "" /\ last.err = NoError)
          => /\ TempPath(ActiveConfigPath) \notin DOMAIN files
             /\ TempPath(StateFilePath) \notin DOMAIN files
             /\ last.target = StateFilePath
    /\ (Ended("Unset") /\ last.err = NoError)
          => (TempPath(StateFilePath) \notin DOMAIN files /\ last.target = StateFilePath)
    /\ (Ended("Create") /\ last.err = NoError)
          => /\ TempPath(last.target) \notin DOMAIN files
             /\ last.target = Join(GetContextsDir(useProject),
                                   last.name \o FileExtension(last.format))
             /\ last.target \in DOMAIN files
    /\ KilledBeforeRename
          => /\ FileAt(files, last.target) = FileAt(last.pre.files, last.target)
             /\ \A q \in DOMAIN Visible(files) : Complete(q, files[q])

\* C6's case: a switch killed with the new bytes in the temporary file and the rename
\* still to make, over an active config file that holds other bytes
C6_Witness ==
    /\ last.op = "Switch" /\ last.crashedAt = "Switch_rename"
    /\ TempPath(ActiveConfigPath) \in DOMAIN files
    /\ ActiveConfigPath \in DOMAIN files
    /\ files[TempPath(ActiveConfigPath)] # files[ActiveConfigPath]

\* C7: a Switch(name) that fails because name is invalid, the context is missing or its
\* content does not parse leaves the persisted state and the active config file (indeed
\* every file and directory) as they were.
C7_FailedSwitchChangesNothing ==
    (Ended("Switch") /\ last.err \in {InvalidName, NotFound, InvalidContent}) =>
        /\ FileAt(files, StateFilePath) = FileAt(last.pre.files, StateFilePath)
        /\ FileAt(files, ActiveConfigPath) = FileAt(last.pre.files, ActiveConfigPath)
        /\ StateNow = StateBefore
        /\ NothingChanged

\* C7's case: a switch to a context whose file does not parse, with a state on file
C7_Witness ==
    /\ Ended("Switch") /\ last.err = InvalidContent
    /\ StateBefore.cur # "" /\ StateBefore.prev # ""
    /\ ActiveConfigPath \in DOMAIN files

\* C8 as stated: a SwitchToPrevious that fails with StalePrevious leaves the persisted
\* state swapped (current and previous exchanged).
C8_AsStated ==
    (Ended("Previous") /\ last.err = StalePrevious) =>
        StateNow = [cur |-> StateBefore.prev, prev |-> StateBefore.cur]

\* C8 as amended: a SwitchToPrevious that fails with StalePrevious leaves the persisted
\* state, the active config file and every other file as they were: the swap is made on
\* the State in memory and is never saved.
C8_StalePreviousChangesNothing ==
    (Ended("Previous") /\ last.err = StalePrevious) =>
        /\ StateNow = StateBefore
        /\ StateBefore.prev # ""
        /\ GetContext(PreWorld, useProject, StateBefore.prev).err # NoError
        /\ NothingChanged

\* C8's case: the previous context is gone and differs from the current one
C8_Witness ==
    /\ Ended("Previous") /\ last.err = StalePrevious
    /\ StateBefore.cur # "" /\ StateBefore.cur # StateBefore.prev

\* C9: SwitchToPrevious with an empty persisted previous fails with NoPreviousContext
\* and changes nothing: not current, not previous, not the active config file.
C9_NoPreviousIsNoOp ==
    (Ended("Previous") /\ StateBefore.prev = "") =>
        /\ last.err = NoPreviousContext
        /\ StateNow = StateBefore
        /\ FileAt(files, ActiveConfigPath) = FileAt(last.pre.files, ActiveConfigPath)
        /\ NothingChanged

\* C9's case: a current context, an active config file and no previous
C9_Witness ==
    /\ Ended("Previous") /\ StateBefore.prev = "" /\ StateBefore.cur = "a"
    /\ ActiveConfigPath \in DOMAIN files

\* C10: get, create, delete and rename reject "", ".", "..", a name with / or \ and a
\* name starting with . with InvalidName (rename: for either of its names), and no
\* file or directory is made, changed or removed.
C10_RejectedNamesTouchNothing ==
    (/\ \/ Ended("Get") \/ Ended("Create") \/ Ended("Delete") \/ Ended("Rename")
     /\ \/ RejectedName(last.name)
        \/ (last.op = "Rename" /\ RejectedName(last.newName)))
    => (last.err = InvalidName /\ NothingChanged)

\* C10's case: create with a dotted name before the contexts directory exists
C10_Witness ==
    /\ Ended("Create") /\ last.name = ".a" /\ last.err = InvalidName
    /\ GetContextsDir(useProject) \notin dirs
    /\ ActiveConfigPath \in DOMAIN files

\* a file for name exists under one of the two extensions
HasContextFile(w, up, name) ==
    \E i \in 1..Len(GetAllFormats) :
        Exists(w, Join(GetContextsDir(up), name \o FileExtension(GetAllFormats[i])))

\* C11 as stated: create(name, format) fails with AlreadyExists whenever a file for
\* name exists under either extension, whatever the format asked for, and then no file
\* or directory is made or changed.
C11_AsStated ==
    (Ended("Create") /\ HasContextFile(PreWorld, useProject, last.name))
    => (last.err = AlreadyExists /\ NothingChanged)

\* C12 as stated: for a name that passes validation and a JSON object held by the
\* active config, create in either format followed by get yields that object.
C12_AsStated ==
    (Ended("Create") /\ last.err = NoError)
    => /\ GetContext(World, useProject, last.name).err = NoError
       /\ GetContext(World, useProject, last.name).data
            = Unmarshal(last.pre.files[ActiveConfigPath])
       /\ GetContext(World, useProject, last.name).data # NotJSON

\* C13: a successful Rename(oldName, newName) leaves every state slot that held
\* oldName holding newName, saved in the state file, and every other slot as it was;
\* when neither slot held oldName the state file is not written.
C13_RenameRewritesState ==
    (Ended("Rename") /\ last.err = NoError)
    => /\ StateNow = [cur |-> IF StateBefore.cur = last.name
                              THEN last.newName ELSE StateBefore.cur,
                      prev |-> IF StateBefore.prev = last.name
                               THEN last.newName ELSE StateBefore.prev]
       /\ (StateBefore.cur = last.name \/ StateBefore.prev = last.name)
            => FileAt(files, StateFilePath) = <<MarshalState(StateNow)>>
       /\ (StateBefore.cur # last.name /\ StateBefore.prev # last.name)
            => FileAt(files, StateFilePath) = FileAt(last.pre.files, StateFilePath)

\* C13's case: the previous context is renamed, the current one is another
C13_Witness ==
    /\ Ended("Rename") /\ last.err = NoError
    /\ StateBefore.prev = last.name
    /\ StateBefore.cur # last.name /\ StateBefore.cur # ""
    /\ last.newName # last.name

\* C14: Unset succeeds whether or not the active config file is there, leaves no
\* active config file, and leaves the persisted state with current empty and previous
\* holding what current held before.
C14_UnsetClearsCurrent ==
    Ended("Unset")
    => /\ last.err = NoError
       /\ ActiveConfigPath \notin DOMAIN files
       /\ StateNow = [cur |-> "", prev |-> StateBefore.cur]
       /\ FileAt(files, StateFilePath) = <<MarshalState(StateNow)>>
       /\ Without(Without(files, StateFilePath), ActiveConfigPath)
            = Without(Without(last.pre.files, StateFilePath), ActiveConfigPath)

\* C14's case: an active config file, a current and another previous
C14_Witness ==
    /\ Ended("Unset")
    /\ ActiveConfigPath \in DOMAIN last.pre.files
    /\ StateBefore.cur = "a" /\ StateBefore.prev = "b"

\* the state file is there and does not parse as a State
Unparseable(f, path) == path \in DOMAIN f /\ ~UnmarshalState(f[path]).ok

\* C15: loading the state never fails on a missing or corrupt state file: when the
\* file is absent, or there but not parseable, the load gives the zero State and no
\* error (seen through GetCurrentContext, which returns what LoadState gives).
C15_LoadStateNeverFails ==
    (/\ Ended("Current")
     /\ \/ StateFilePath \notin DOMAIN last.pre.files
        \/ Unparseable(last.pre.files, StateFilePath))
    => /\ last.err = NoError
       /\ last.name = ""
       /\ LoadState(PreWorld, StateFilePath) = [err |-> NoError, s |-> ZeroState]
       /\ NothingChanged

\* C15's case: a state file that holds a short text written over a longer one
C15_Witness ==
    /\ Ended("Current")
    /\ StateFilePath \in DOMAIN files
    /\ files[StateFilePath] = TornState
    /\ Unparseable(files, StateFilePath)

---------------------------------------------------------------------------
(* listing, over directories that hold leftovers of killed invocations *)

SubdirName == "sub.json"

\* a directory is made in the contexts directory from outside
MakeSubdirectory ==
    /\ Quiet
    /\ Join(GetContextsDir(useProject), SubdirName) \notin dirs
    /\ dirs' = dirs \cup Ancestors(Join(GetContextsDir(useProject), SubdirName))
    /\ last' = [NoOutcome EXCEPT !.op = "Mkdir", !.pre = [files |-> files, dirs |-> dirs]]
    /\ UNCHANGED <<useProject, files, fds, procs, prior>>

NextList ==
    \/ \E f \in Formats, t \in Times : Begin(1, "Create", "a", "", f, t)
    \/ Begin(1, "Switch", "a", "", "", "")
    \/ StepProc(1)
    \/ End(1)
    \/ Crash(1)
    \/ DoList
    \/ MakeSubdirectory
    \/ EditActiveConfig(Compact(ThemeDoc))
    \/ Forget(FALSE)

SpecList == Init /\ [][NextList]_vars

Listing == ListContexts(World, useProject)

\* C16: list() returns no directory, never the state file, and no entry whose extension
\* is other than .json or .jsonc (a leftover .tmp file among them); it returns nothing
\* and no error when the contexts directory does not exist; it changes nothing, so that
\* a second call returns the same names as the first.
C16_ListExcludes ==
    /\ \A c \in Listing.contexts :
          /\ c.path \in DOMAIN files
          /\ c.path \notin dirs
          /\ c.path # StateFilePath
          /\ Ext(Base(c.path)) \in {".json", ".jsonc"}
          /\ c.name \o Ext(Base(c.path)) = Base(c.path)
    /\ ~Exists(World, GetContextsDir(useProject))
          => Listing = [err |-> NoError, contexts |-> {}]
    /\ Ended("List")
          => /\ last.err = NoError
             /\ NothingChanged
             /\ ListContexts(PreWorld, useProject) = Listing

\* list() returned some context from a directory that also holds the state file, a
\* subdirectory and the temporary file a killed invocation left
C16_Witness ==
    /\ Ended("List")
    /\ Listing.contexts # {}
    /\ StateFilePath \in DOMAIN files
    /\ Join(GetContextsDir(useProject), SubdirName) \in dirs
    /\ \E q \in ReadDir(World, GetContextsDir(useProject)) : Ext(Base(q)) = ".tmp"

\* list() ran where no contexts directory exists
C16_WitnessNoDirectory ==
    Ended("List") /\ ~Exists(World, GetContextsDir(useProject))

\* C17 as stated: import of a name that create rejects with InvalidName fails as well,
\* and writes no file, neither in the contexts directory nor outside of it.
C17_AsStated ==
    (Ended("Import") /\ RejectedName(last.name))
        => (last.err # NoError /\ files = last.pre.files)

\* C18 as stated: after a Rename that succeeded, of a context of either format,
\* get(newName) succeeds and returns the data get(oldName) returned before the rename.
C18_AsStated ==
    (Ended("Rename") /\ last.err = NoError)
        => /\ GetContext(World, useProject, last.newName).err = NoError
           /\ GetContext(World, useProject, last.newName).data
                 = GetContext(PreWorld, useProject, last.name).data

---------------------------------------------------------------------------
(* the manager's operations alone: nothing but them writes once the first one has run *)

\* the active configuration the installation starts with, written before any context
\* or state exists
InitialActiveConfig(lines) ==
    /\ ~Exists(World, GetContextsDir(useProject))
    /\ ~Exists(World, GetActiveConfigPath(useProject))
    /\ EditActiveConfig(lines)

NextClosed ==
    \/ \E lines \in DocInputs : InitialActiveConfig(lines)
    \/ \E n \in ValidNames, f \in Formats, t \in Times : DoCreate(n, f, t)
    \/ \E n \in ValidNames : DoSwitch(n)
    \/ DoPrevious
    \/ DoUnset
    \/ \E n \in ValidNames : DoDelete(n)
    \/ \E o \in ValidNames, n \in ValidNames : DoRename(o, n)
    \/ Forget(FALSE)

SpecClosed == Init /\ [][NextClosed]_vars

\* C19 as stated: with no kill and no edit from outside, whenever the state file names a
\* current context, the active configuration file holds the bytes of the file that the
\* .json-then-.jsonc probe finds for that name.
C19_AsStated ==
    (AllIdle /\ StateNow.cur # "")
        => /\ ResolveContextPath(World, useProject, StateNow.cur) # ""
           /\ FileAt(files, ActiveConfigPath)
                 = FileAt(files, ResolveContextPath(World, useProject, StateNow.cur))

\* name has a file under each of the two extensions
HasBothExtensions(w, up, name) ==
    \A i \in 1..Len(GetAllFormats) :
        Exists(w, Join(GetContextsDir(up), name \o FileExtension(GetAllFormats[i])))

\* C20 as stated: from a contexts directory where no name has both a .json and a .jsonc
\* file, no sequence of Create, Rename, Delete and import produces a name that has both.
C20_AsStated ==
    \A n \in ValidNames \cup ImportNames : ~HasBothExtensions(World, useProject, n)

\* the path RenameContext checks and writes for newName
NewContextPath == Join(GetContextsDir(useProject), last.newName \o ".json")

\* C21 as stated: rename(oldName, newName) fails with AlreadyExists exactly when a file
\* newName.json exists, and on that failure nothing is changed.
C21_AsStated ==
    Ended("Rename")
        => /\ (last.err = AlreadyExists) <=> Exists(PreWorld, NewContextPath)
           /\ last.err = AlreadyExists => NothingChanged

\* C21: once both names pass validation and oldName resolves as get resolves it,
\* rename(oldName, newName) fails with AlreadyExists exactly when a file newName.json
\* exists; with no such file it succeeds, also when newName.jsonc exists.  Whenever it
\* fails with AlreadyExists, no file and no directory is changed, the state file included.
C21_RenameCollision ==
    Ended("Rename")
        => /\ (/\ validateContextName(last.name) = NoError
               /\ validateContextName(last.newName) = NoError
               /\ GetContext(PreWorld, useProject, last.name).err = NoError)
              => /\ (last.err = AlreadyExists) <=> Exists(PreWorld, NewContextPath)
                 /\ ~Exists(PreWorld, NewContextPath) => last.err = NoError
           /\ last.err = AlreadyExists
                => (Exists(PreWorld, NewContextPath) /\ NothingChanged)

\* C21's case: the current context is renamed onto a name whose .json file exists
C21_Witness ==
    /\ Ended("Rename")
    /\ last.err = AlreadyExists
    /\ last.name # last.newName
    /\ StateBefore.cur = last.name

\* a rename went ahead although newName.jsonc existed
C21_WitnessProceeds ==
    /\ Ended("Rename")
    /\ last.err = NoError
    /\ last.name # last.newName
    /\ Exists(PreWorld, Join(GetContextsDir(useProject), last.newName \o ".jsonc"))

\* C22: from an empty installation, with no kill and no edit from outside, whenever the
\* state file names a current context, a file of that name exists under .json or .jsonc.
\* (The previous context has no such guarantee: C22_Witness is a state where it is gone.)
C22_CurrentExists ==
    (AllIdle /\ StateNow.cur # "")
        => HasContextFile(World, useProject, StateNow.cur)

\* the current context has its file while the previous one, deleted since, has none
C22_Witness ==
    /\ AllIdle
    /\ StateNow.cur # ""
    /\ HasContextFile(World, useProject, StateNow.cur)
    /\ StateNow.prev # ""
    /\ StateNow.prev # StateNow.cur
    /\ ~HasContextFile(World, useProject, StateNow.prev)

---------------------------------------------------------------------------
(* create after switch: the outcome before the last one is kept on record *)

NextSource ==
    \/ \E lines \in DocInputs : InitialActiveConfig(lines)
    \/ \E n \in ValidNames, f \in Formats, t \in Times : DoCreate(n, f, t)
    \/ \E n \in ValidNames : DoSwitch(n)
    \/ \E n \in ValidNames : DoDelete(n)
    \/ DoUnset
    \/ Forget(TRUE)

SpecSource == Init /\ [][NextSource]_vars

\* C23 as stated: after a Switch that succeeded, to a context of either format, a Create
\* with a valid name that no context has succeeds: the active configuration is a valid
\* source for it.
C23_AsStated ==
    (/\ prior.op = "Switch" /\ prior.crashedAt = "" /\ prior.err = NoError
     /\ Ended("Create")
     /\ validateContextName(last.name) = NoError
     /\ ~HasContextFile(PreWorld, useProject, last.name))
        => last.err = NoError

\* C24 as stated: after any sequence of Create, Rename, Delete and import, every name
\* list() returns passes name validation and resolves through get(name) without error.
C24_AsStated ==
    \A c \in Listing.contexts :
        /\ validateContextName(c.name) = NoError
        /\ GetContext(World, useProject, c.name).err = NoError

---------------------------------------------------------------------------
(* unset and switch back, over contexts of both formats *)

NextUndo ==
    \/ \E lines \in DocInputs : EditActiveConfig(lines)
    \/ \E n \in ValidNames, f \in Formats, t \in Times : DoCreate(n, f, t)
    \/ \E n \in ValidNames : DoSwitch(n)
    \/ DoUnset
    \/ DoPrevious
    \/ Forget(TRUE)

SpecUndo == Init /\ [][NextUndo]_vars

\* the state file as the invocation before the last one found it
StateBeforePrior == Persisted(prior.pre.files, useProject)

\* the invocation before the last one was an Unset that succeeded, run while the state
\* named a current context that get resolves
UnsetOfValidCurrent ==
    /\ prior.op = "Unset" /\ prior.crashedAt = "" /\ prior.err = NoError
    /\ StateBeforePrior.cur # ""
    /\ GetContext([files |-> prior.pre.files, dirs |-> prior.pre.dirs, fds |-> fds],
                  useProject, StateBeforePrior.cur).err = NoError

\* C25: from current = A, with A an existing valid context, Unset and then
\* SwitchToPrevious succeeds and leaves current = A, previous = "" and the active
\* configuration holding the bytes of A's file; a second Unset instead leaves previous
\* empty, and SwitchToPrevious then fails with NoPreviousContext.
C25_UnsetThenPrevious ==
    UnsetOfValidCurrent
        => /\ Ended("Previous")
                => /\ last.err = NoError
                   /\ StateNow = [cur |-> StateBeforePrior.cur, prev |-> ""]
                   /\ FileAt(files, ActiveConfigPath)
                        = FileAt(files, ResolveContextPath(World, useProject,
                                                           StateBeforePrior.cur))
                   /\ ActiveConfigPath \in DOMAIN files
           /\ Ended("Unset")
                => /\ last.err = NoError
                   /\ StateNow = ZeroState
                   /\ Run(Start(1, "Previous", "", "", "", ""), World).p.err
                        = NoPreviousContext

\* C25's case: current = A and a previous context B, Unset, then SwitchToPrevious
C25_Witness ==
    /\ UnsetOfValidCurrent
    /\ StateBeforePrior.prev # ""
    /\ StateBeforePrior.prev # StateBeforePrior.cur
    /\ Ended("Previous")
    /\ last.err = NoError

\* C25's other case: the second Unset
C25_WitnessSecondUnset ==
    UnsetOfValidCurrent /\ Ended("Unset")

\* SwitchToPrevious run on the files as they are now
PreviousNow == Run(Start(1, "Previous", "", "", "", ""), World)

\* C26: a Switch(name) that succeeds stores the current context it found as previous,
\* also when that is name itself: the state is then current = previous = name, whatever
\* previous was, and a SwitchToPrevious that follows succeeds and stays on name.
C26_SwitchStoresPrior ==
    (Ended("Switch") /\ last.err = NoError)
        => /\ StateNow = [cur |-> last.name, prev |-> StateBefore.cur]
           /\ StateBefore.cur = last.name
                => /\ StateNow = [cur |-> last.name, prev |-> last.name]
                   /\ PreviousNow.p.err = NoError
                   /\ Persisted(PreviousNow.w.files, useProject).cur = last.name

\* C26's case: a switch to the current context while another one was previous
C26_Witness ==
    /\ Ended("Switch")
    /\ last.err = NoError
    /\ StateBefore.cur = last.name
    /\ StateBefore.prev # ""
    /\ StateBefore.prev # last.name
    /\ HasContextFile(World, useProject, StateBefore.prev)

---------------------------------------------------------------------------
(* get, over directories where a name can have a file under each extension *)

NextProbe ==
    \/ \E n \in Names : DoGet(n)
    \/ \E n \in ValidNames, f \in Formats, t \in Times : DoCreate(n, f, t)
    \/ \E o \in ValidNames, n \in ValidNames : DoRename(o, n)
    \/ \E n \in ValidNames : DoImport(n, Compact(ThemeDoc))
    \/ \E n \in ValidNames : DoDelete(n)
    \/ \E lines \in DocInputs : EditActiveConfig(lines)
    \/ Forget(FALSE)

SpecProbe == Init /\ [][NextProbe]_vars

JSONPath == Join(GetContextsDir(useProject), last.name \o ".json")
JSONCPath == Join(GetContextsDir(useProject), last.name \o ".jsonc")

\* what get(last.name) returns on the files as they are
Got == GetContext(World, useProject, last.name)

\* the .json file of last.name decides the result of get
ReadsJSONFile ==
    /\ last.err = IF Unmarshal(files[JSONPath]) = NotJSON THEN InvalidContent ELSE NoError
    /\ last.err = NoError
         => (Got.path = JSONPath /\ Got.data = Unmarshal(files[JSONPath]))

\* C27 as stated: when both name.json and name.jsonc exist, get(name) reads the .json
\* file and returns it as filePath; get fails with NotFound exactly when neither exists.
C27_AsStated ==
    Ended("Get")
        => /\ (JSONPath \in DOMAIN files /\ JSONCPath \in DOMAIN files) => ReadsJSONFile
           /\ (last.err = NotFound)
                <=> ~(Exists(World, JSONPath) \/ Exists(World, JSONCPath))

\* C27: get(name) fails with InvalidName for a name that does not pass validation,
\* whatever files exist.  For a name that passes, when name.json exists, alone or beside
\* name.jsonc, it is the file read and returned as filePath, and get fails with NotFound
\* exactly when neither file exists.  get changes nothing.
C27_ProbeOrder ==
    Ended("Get")
        => /\ NothingChanged
           /\ last.err = Got.err
           /\ validateContextName(last.name) # NoError => last.err = InvalidName
           /\ validateContextName(last.name) = NoError
                => /\ JSONPath \in DOMAIN files => ReadsJSONFile
                   /\ (last.err = NotFound)
                        <=> ~(Exists(World, JSONPath) \/ Exists(World, JSONCPath))
                   /\ (last.err = NoError /\ JSONPath \notin DOMAIN files)
                        => Got.path = JSONCPath

\* C27's case: both files exist, with different data, and get returned the .json one
C27_Witness ==
    /\ Ended("Get")
    /\ last.err = NoError
    /\ JSONPath \in DOMAIN files
    /\ JSONCPath \in DOMAIN files
    /\ Unmarshal(StripComments(files[JSONCPath])) \notin {NotJSON, Got.data}

---------------------------------------------------------------------------
(* both scopes: successive invocations run with and without the project flag *)

\* the next invocation runs a Manager made for the other scope
SwitchScope ==
    /\ Quiet
    /\ useProject' = ~useProject
    /\ UNCHANGED <<files, dirs, fds, procs, last, prior>>

NextScopes ==
    \/ SwitchScope
    \/ \E t \in Times : DoCreate("a", FormatJSON, t)
    \/ DoSwitch("a")
    \/ DoRename("a", "b")
    \/ DoDelete("b")
    \/ DoPrevious
    \/ DoUnset
    \/ EditActiveConfig(Compact(ThemeDoc))
    \/ Forget(FALSE)

SpecScopes == Init /\ [][NextScopes]_vars

\* path is root or lies below it
Under(path, root) == path = root \/ HasPrefix(path, root \o "/")

\* neither scope's root, nor the project's active file, lies in the other scope
ScopesApart ==
    /\ ~Under(ProjectConfigDir, GlobalConfigDir)
    /\ ~Under(GlobalConfigDir, ProjectConfigDir)
    /\ ~Under(ProjectActiveConfig, GlobalConfigDir)

\* the paths that make up scope up: its contexts directory with all below it, its
\* active configuration file and its state file
InScope(path, up) ==
    \/ Under(path, GetContextsDir(up))
    \/ path = GetActiveConfigPath(up)
    \/ path = GetStateFilePath(up)

\* the part of the files f, and of the directories d, that belongs to scope up
ScopeFiles(f, up) == [q \in {x \in DOMAIN f : InScope(x, up)} |-> f[q]]
ScopeDirs(d, up) == {x \in d : InScope(x, up)}

ManagerOps == {"Create", "Switch", "Rename", "Delete", "Previous", "Unset"}

\* C28: with the two scopes at separate places, an operation of a Manager made for one
\* scope leaves the other scope's contexts directory, active configuration file and
\* state file as they were.
C28_ScopeIsolation ==
    (ScopesApart /\ last.op \in ManagerOps /\ last.crashedAt = "")
        => /\ ScopeFiles(files, ~useProject) = ScopeFiles(last.pre.files, ~useProject)
           /\ ScopeDirs(dirs, ~useProject) = ScopeDirs(last.pre.dirs, ~useProject)

\* C28's case: a switch in one scope, while the other scope holds a context, a state
\* file and an active configuration of its own
C28_Witness ==
    /\ ScopesApart
    /\ Ended("Switch")
    /\ last.err = NoError
    /\ GetStateFilePath(~useProject) \in DOMAIN files
    /\ GetActiveConfigPath(~useProject) \in DOMAIN files
    /\ HasContextFile(World, ~useProject, "b")
    /\ files[GetActiveConfigPath(~useProject)] # files[ActiveConfigPath]

---------------------------------------------------------------------------
(* the existence probe of the project scope *)

NextDetect ==
    \/ DoProjectContextsExist
    \/ \E f \in Formats, t \in Times : DoCreate("a", f, t)
    \/ \E n \in {"b", ".a"} : DoImport(n, Compact(ThemeDoc))
    \/ \E n \in ValidNames : DoDelete(n)
    \/ DoSwitch("a")
    \/ DoUnset
    \/ MakeSubdirectory
    \/ EditActiveConfig(Compact(ThemeDoc))
    \/ Forget(FALSE)

SpecDetect == Init /\ [][NextDetect]_vars

\* the entries the specification counts: files of the project contexts directory that
\* are not hidden, not the state file and not a directory, with extension .json or .jsonc
ProjectContextFiles ==
    {e \in ReadDir(World, ProjectSettingsDir) :
        /\ e \notin dirs
        /\ ~HasPrefix(Base(e), ".")
        /\ Base(e) # StateFileName
        /\ Ext(Base(e)) \in {".json", ".jsonc"}}

\* C29 as stated: the existence probe of the project scope returns true exactly when
\* the project contexts directory holds at least one file that is not hidden, not the
\* state file and not a directory, with extension .json or .jsonc; false when the
\* directory is absent, empty or holds only the state file.
C29_AsStated ==
    Ended("Exists")
        => /\ (last.err = NoError) <=> (ProjectContextFiles # {})
           /\ (last.err = NotFound) <=> (ProjectContextFiles = {})

\* the root of each scope, as the specification names it
ScopeRoot(up) ==
    IF up THEN Join(CurrentDir, ProjectConfigDirName) ELSE Join(HomeDir, OpenCodeConfigDir)

\* the paths Paths holds for scope up
ScopePaths(up) ==
    IF up THEN {ProjectConfigDir, ProjectSettingsDir, ProjectActiveConfig, ProjectStateFile}
    ELSE {GlobalConfigDir, GlobalSettingsDir, GlobalActiveConfig, GlobalStateFile}

\* the files and directories that the last invocation made, changed or removed
Touched ==
    {q \in DOMAIN files \cup DOMAIN last.pre.files :
        FileAt(files, q) # FileAt(last.pre.files, q)}
    \cup ((dirs \ last.pre.dirs) \cup (last.pre.dirs \ dirs))

\* C30 as stated: every path held in Paths for a scope (config root, contexts directory,
\* active config file, state file) is a subpath of that scope's root,
\* <home>/.config/opencode for Global and <cwd>/opencode for Project.
C30_AsStated ==
    \A up \in {useProject, ~useProject} : \A q \in ScopePaths(up) : Under(q, ScopeRoot(up))

\* C30: every path held in Paths for the Global scope is a subpath of
\* <home>/.config/opencode.  For the Project scope the config root, the contexts
\* directory and the state file are subpaths of <cwd>/opencode, while the active config
\* file is <cwd>/opencode.json, in the working directory itself and outside that root.
\* An operation of either scope writes nothing but below its root or at its active
\* config file.
C30_PathsUnderRoots ==
    /\ \A q \in ScopePaths(FALSE) : Under(q, ScopeRoot(FALSE))
    /\ \A q \in ScopePaths(TRUE) \ {ProjectActiveConfig} : Under(q, ScopeRoot(TRUE))
    /\ ProjectActiveConfig = Join(CurrentDir, ProjectConfigFileName)
    /\ ~Under(ProjectActiveConfig, ScopeRoot(TRUE))
    /\ (last.op \in ManagerOps /\ last.crashedAt = "")
         => \A q \in Touched :
               \/ Under(q, ScopeRoot(useProject))
               \/ q \in Ancestors(ScopeRoot(useProject))
               \/ q = GetActiveConfigPath(useProject)
               \/ q = TempPath(GetActiveConfigPath(useProject))

\* C30's case: a switch in the project scope wrote the state file below <cwd>/opencode
\* and the active config file beside it
C30_Witness ==
    /\ useProject
    /\ Ended("Switch")
    /\ last.err = NoError
    /\ ProjectActiveConfig \in Touched
    /\ ProjectStateFile \in Touched

====
